---- MODULE Spec2Model ----
(***************************************************************************)
(* Server side of mre_scene (src/src/server.rs, src/src/shared.rs).        *)
(*                                                                         *)
(* The server is a tick-driven Bevy application.  At Startup it queues the *)
(* asynchronous load of assets/scene.ron (spawn_scene).  Every tick runs   *)
(* the two Update systems create_save_scene and add_replicate (in either   *)
(* order, the source orders them in no way), then applies the deferred     *)
(* commands, runs the scene spawner and finally the replication send.      *)
(* Background write tasks (IoTaskPool, detached) and the asset load run    *)
(* concurrently with the tick loop.                                        *)
(***************************************************************************)
EXTENDS Integers, Sequences, FiniteSets, TLC

(***************************************************************************)
(* Bounds of the model.                                                    *)
(***************************************************************************)
MaxConnects == 2        \* connection events (connects, disconnects) delivered in all
MaxEventsPerTick == 2   \* connect events delivered within one tick
MaxSceneEntities == 2   \* entities of a scene.ron present before the first run

(***************************************************************************)
(* Client identities.  The server listens on one NetConfig::Netcode, so    *)
(* every ClientId is ClientId::Netcode(id); a client is modelled by id.    *)
(* The two ids differ in their number of decimal digits, so that their     *)
(* serialized snapshots differ in length.                                  *)
(***************************************************************************)
Clients == {7, 12}

Absent == -1            \* "component not present" for the numeric components
NoName == "None"        \* "Name component not present"
SceneEntityName == "Replicated entity"
SceneRootName == "MASTER PERI ENLIGHTEN US"

\* ClientId::to_bits of ClientId::Netcode(id): the u64 the variant wraps
ToBits(client_id) == client_id

\* RoomId(client_id.to_bits())
RoomIdOf(client_id) == ToBits(client_id)

(***************************************************************************)
(* Components.  A scene bundle carries the three reflected components of   *)
(* shared.rs / server.rs: ComponentA(usize), CarrierId(ClientId), Name.    *)
(***************************************************************************)
Bundle(p, c, n) == [payload |-> p, carrier |-> c, name |-> n]

NoReplicate == [present |-> FALSE, target |-> "None", relevance_mode |-> "None"]

\* Replicate { target: All, relevance_mode: InterestManagement, ..default() }
ReplicateLobby ==
    [present |-> TRUE, target |-> "All", relevance_mode |-> "InterestManagement"]

\* Replicate { target: All, ..default() }: the default relevance mode is All
ReplicateBroadcast ==
    [present |-> TRUE, target |-> "All", relevance_mode |-> "All"]

\* An entity of a World: its components and its parent (0: no parent)
EntityOf(b, parent, marker) ==
    [payload |-> b.payload, carrier |-> b.carrier, name |-> b.name,
     parent |-> parent, marker |-> marker, replicate |-> NoReplicate]

\* World::new()
EmptyWorld == << >>

\* world.spawn(bundle): the new entity gets the next identifier
Spawn(world, e) == Append(world, e)

\* The (payload, carrier, name) bundle of an entity
BundleOf(e) == Bundle(e.payload, e.carrier, e.name)

(***************************************************************************)
(* Snapshot codec.  scene.serialize writes RON text; the text is modelled  *)
(* as a sequence of tokens in which every decimal digit is one token, so   *)
(* that the length of the text depends on the values as it does in RON.    *)
(***************************************************************************)
DigitChars == <<"0", "1", "2", "3", "4", "5", "6", "7", "8", "9">>

IsDigit(t) == \E d \in 1..10 : DigitChars[d] = t

DigitValue(t) == (CHOOSE d \in 1..10 : DigitChars[d] = t) - 1

RECURSIVE Digits(_)
Digits(n) ==
    IF n < 10 THEN <<DigitChars[n + 1]>>
    ELSE Digits(n \div 10) \o <<DigitChars[(n % 10) + 1]>>

\* A mis-parse that reads the digits least-significant first
RECURSIVE ParseNatReversed(_)
ParseNatReversed(ds) ==
    IF Len(ds) = 0 THEN 0
    ELSE DigitValue(Head(ds)) + 10 * ParseNatReversed(Tail(ds))

RECURSIVE ParseNat(_)
ParseNat(ds) ==
    IF Len(ds) = 0 THEN 0
    ELSE 10 * ParseNat(SubSeq(ds, 1, Len(ds) - 1)) + DigitValue(ds[Len(ds)])

SerializeEntity(b) ==
    <<"{">>
    \o (IF b.payload = Absent THEN << >> ELSE <<"ComponentA">> \o Digits(b.payload))
    \o (IF b.carrier = Absent THEN << >> ELSE <<"CarrierId">> \o Digits(b.carrier))
    \o (IF b.name = NoName THEN << >> ELSE <<"Name", b.name>>)
    \o <<"}">>

RECURSIVE SerializeEntities(_)
SerializeEntities(bs) ==
    IF Len(bs) = 0 THEN << >>
    ELSE SerializeEntity(Head(bs)) \o SerializeEntities(Tail(bs))

\* DynamicScene::from_world(&scene_world): the bundles of the world's entities
RECURSIVE FromWorld(_)
FromWorld(world) ==
    IF Len(world) = 0 THEN << >>
    ELSE <<BundleOf(Head(world))>> \o FromWorld(Tail(world))

\* scene.serialize(&type_registry), on success
Serialize(scene) == <<"(">> \o SerializeEntities(scene) \o <<")">>

\* End (exclusive) of the run of digit tokens that starts at position i
RECURSIVE DigitsEnd(_, _)
DigitsEnd(bytes, i) ==
    IF i <= Len(bytes) /\ IsDigit(bytes[i]) THEN DigitsEnd(bytes, i + 1) ELSE i

DecodeError == [ok |-> FALSE, scene |-> << >>]

\* Parses the components of one entity from position i on; b is the bundle so far
RECURSIVE DecodeEntity(_, _, _)
DecodeEntity(bytes, i, b) ==
    IF i > Len(bytes) THEN [ok |-> FALSE, next |-> i, bundle |-> b]
    ELSE IF bytes[i] = "}" THEN [ok |-> TRUE, next |-> i + 1, bundle |-> b]
    ELSE IF bytes[i] \in {"ComponentA", "CarrierId"} THEN
        LET j == DigitsEnd(bytes, i + 1)
            v == ParseNat(SubSeq(bytes, i + 1, j - 1))
        IN  IF j = i + 1 THEN [ok |-> FALSE, next |-> i, bundle |-> b]
            ELSE IF bytes[i] = "ComponentA"
                 THEN DecodeEntity(bytes, j, [b EXCEPT !.payload = v])
                 ELSE DecodeEntity(bytes, j, [b EXCEPT !.carrier = v])
    ELSE IF bytes[i] = "Name" /\ i + 1 <= Len(bytes)
              /\ bytes[i + 1] \in {SceneEntityName, SceneRootName} THEN
        DecodeEntity(bytes, i + 2, [b EXCEPT !.name = bytes[i + 1]])
    ELSE [ok |-> FALSE, next |-> i, bundle |-> b]

\* Parses the entity list from position i on; acc is the scene so far
RECURSIVE DecodeEntities(_, _, _)
DecodeEntities(bytes, i, acc) ==
    IF i > Len(bytes) THEN DecodeError
    ELSE IF bytes[i] = ")" THEN
        IF i = Len(bytes) THEN [ok |-> TRUE, scene |-> acc] ELSE DecodeError
    ELSE IF bytes[i] = "{" THEN
        LET r == DecodeEntity(bytes, i + 1, Bundle(Absent, Absent, NoName))
        IN  IF r.ok THEN DecodeEntities(bytes, r.next, Append(acc, r.bundle))
            ELSE DecodeError
    ELSE DecodeError

\* The scene loader on the text of scene.ron
Decode(bytes) ==
    IF Len(bytes) = 0 \/ bytes[1] # "(" THEN DecodeError
    ELSE DecodeEntities(bytes, 2, << >>)

(***************************************************************************)
(* State.                                                                  *)
(***************************************************************************)
VARIABLES
    phase,            \* position of the main thread: "boot", "idle", "update",
                      \* "apply", "scene", "send" or "halted" (panicked)
    file,             \* assets/scene.ron: [exists, bytes]
    asset,            \* the scene asset requested by spawn_scene
    registry,         \* the live World: sequence of entities, id = index
    rooms,            \* RoomManager: room id -> [clients, entities]
    lobby_yes_or_no,  \* Local<bool> of add_replicate
    events,           \* ServerConnectEvents readable in the current tick
    ran,              \* Update systems that have run in the current tick
    commands,         \* deferred Commands queued by add_replicate
    tasks,            \* detached IoTaskPool write tasks of this run
    connects,         \* connection events delivered so far
    log,              \* per connect event handled by add_replicate: the
                      \* event's client and the entities the query matched
    sent,             \* client -> entities the replication send selected
    prevWritten,      \* snapshots whose write had completed when the
                      \* previous run ended
    connected         \* clients whose connection is established

vars == <<phase, file, asset, registry, rooms, lobby_yes_or_no, events,
          ran, commands, tasks, connects, log, sent, prevWritten, connected>>

NoFile == [exists |-> FALSE, bytes |-> << >>]
FileOf(bytes) == [exists |-> TRUE, bytes |-> bytes]

NoAsset == [state |-> "unloaded", seen |-> NoFile, scene |-> << >>]

RECURSIVE SeqsUpTo(_, _)
SeqsUpTo(S, n) ==
    IF n = 0 THEN {<< >>}
    ELSE LET shorter == SeqsUpTo(S, n - 1)
         IN  shorter \cup {Append(q, x) : q \in shorter, x \in S}

\* Scenes a scene.ron left by earlier use of the server can hold
InitScenes ==
    SeqsUpTo({Bundle(2, c, SceneEntityName) : c \in Clients}, MaxSceneEntities)

InitFiles == {NoFile} \cup {FileOf(Serialize(s)) : s \in InitScenes}

\* Batches of connect events one tick can deliver: distinct clients
EventBatches(n) ==
    {q \in SeqsUpTo(Clients, n) :
        \A i, j \in 1..Len(q) : i # j => q[i] # q[j]}

Min(a, b) == IF a < b THEN a ELSE b

Init ==
    /\ phase = "boot"
    /\ file \in InitFiles
    /\ asset = NoAsset
    /\ registry = EmptyWorld
    /\ rooms = << >>
    /\ lobby_yes_or_no = FALSE
    /\ events = << >>
    /\ ran = {}
    /\ commands = << >>
    /\ tasks = << >>
    /\ connects = 0
    /\ log = << >>
    /\ sent = [c \in Clients |-> {}]
    /\ prevWritten = {}
    /\ connected = {}

(***************************************************************************)
(* Startup schedule: start_server, spawn_camera, spawn_scene.              *)
(***************************************************************************)
CameraEntity == EntityOf(Bundle(Absent, Absent, NoName), 0, "Camera3d")

\* commands.spawn(DynamicSceneRoot(..)).insert(Name::new("MASTER PERI ..."))
SceneRootEntity ==
    EntityOf(Bundle(Absent, Absent, SceneRootName), 0, "DynamicSceneRoot")

\* Identifier of the entity that holds the DynamicSceneRoot
SceneRootId(world) ==
    CHOOSE i \in DOMAIN world : world[i].marker = "DynamicSceneRoot"

\* The Startup systems run once; asset_server.load only requests the load
Startup ==
    /\ phase = "boot"
    /\ phase' = "idle"
    /\ registry' = Spawn(Spawn(registry, CameraEntity), SceneRootEntity)
    /\ asset' = [state |-> "loading", seen |-> NoFile, scene |-> << >>]
    /\ UNCHANGED <<file, rooms, lobby_yes_or_no, events, ran, commands,
                   tasks, connects, log, sent, prevWritten, connected>>

\* A loader that answers a missing file with a default scene of one entity
LoadAssetDefault(f) ==
    IF ~f.exists
    THEN [state |-> "loaded", seen |-> f,
          scene |-> <<Bundle(2, Absent, SceneEntityName)>>]
    ELSE LET d == Decode(f.bytes)
         IN  IF d.ok THEN [state |-> "loaded", seen |-> f, scene |-> d.scene]
             ELSE [state |-> "failed", seen |-> f, scene |-> << >>]

\* Result of loading scene.ron: a missing or malformed file fails the load
\* (the asset server reports it; nothing is instantiated)
LoadAsset(f) ==
    IF ~f.exists THEN [state |-> "failed", seen |-> f, scene |-> << >>]
    ELSE LET d == Decode(f.bytes)
         IN  IF d.ok THEN [state |-> "loaded", seen |-> f, scene |-> d.scene]
             ELSE [state |-> "failed", seen |-> f, scene |-> << >>]

\* The asset load completes on the IO pool, at any time after Startup
LoadScene ==
    /\ phase \notin {"boot", "halted"}
    /\ asset.state = "loading"
    /\ asset' = LoadAsset(file)
    /\ UNCHANGED <<phase, file, registry, rooms, lobby_yes_or_no, events,
                   ran, commands, tasks, connects, log, sent, prevWritten, connected>>

(***************************************************************************)
(* The tick: First .. Update .. SpawnScene .. PostUpdate.                  *)
(***************************************************************************)
\* Tasks the main thread waits for: the write tasks are .detach()ed
AwaitedAll(ts) == DOMAIN ts
Awaited(ts) == {}

TaskFinished(t) == t.pc \in {"done", "panicked"}

TickMayProceed == \A i \in Awaited(tasks) : TaskFinished(tasks[i])

\* A tick begins; the transport delivers this tick's ServerConnectEvents
BeginTick ==
    /\ phase = "idle"
    /\ TickMayProceed
    /\ \E batch \in EventBatches(Min(MaxEventsPerTick, MaxConnects - connects)) :
          /\ \A k \in DOMAIN batch : batch[k] \notin connected
          /\ events' = batch
          /\ connects' = connects + Len(batch)
          /\ connected' = connected \cup {batch[k] : k \in DOMAIN batch}
    /\ phase' = "update"
    /\ ran' = {}
    /\ UNCHANGED <<file, asset, registry, rooms, lobby_yes_or_no,
                   commands, tasks, log, sent, prevWritten>>

\* A schedule without the sync point after Update
AfterSystemNoSync(done) == IF done = {"save", "repl"} THEN "scene" ELSE "update"

AfterSystem(done) == IF done = {"save", "repl"} THEN "apply" ELSE "update"

(***************************************************************************)
(* create_save_scene                                                       *)
(***************************************************************************)
\* A slip that spawns the snapshot entity with the baseline payload
SnapshotEntityBaseline(client_id) ==
    EntityOf(Bundle(0, client_id, SceneEntityName), 0, "None")

\* The entity create_save_scene spawns for the event of client_id
SnapshotEntity(client_id) ==
    EntityOf(Bundle(2, client_id, SceneEntityName), 0, "None")

\* A slip that spawns the snapshot entity into the live world as well
SpawnSnapshotEntityLive(live, client_id) ==
    [scene_world |-> Spawn(EmptyWorld, SnapshotEntity(client_id)),
     live |-> Spawn(live, SnapshotEntity(client_id))]

\* let mut scene_world = World::new(); scene_world.spawn(..): the two worlds
\* after the spawn
SpawnSnapshotEntity(live, client_id) ==
    [scene_world |-> Spawn(EmptyWorld, SnapshotEntity(client_id)),
     live |-> live]

\* IoTaskPool::get().spawn(async move { .. }).detach(): a task that has not
\* started yet and owns the serialized text
WriteTask(client_id, scene) ==
    [client |-> client_id, scene |-> scene, bytes |-> Serialize(scene),
     pc |-> "spawned"]

\* The loop body for the events evs, each of which serializes successfully
RECURSIVE SaveEvents(_, _, _)
SaveEvents(live, ts, evs) ==
    IF Len(evs) = 0 THEN [live |-> live, tasks |-> ts]
    ELSE LET w == SpawnSnapshotEntity(live, Head(evs))
             scene == FromWorld(w.scene_world)
         IN  SaveEvents(w.live, Append(ts, WriteTask(Head(evs), scene)), Tail(evs))

\* The whole system.  scene.serialize returns a Result; failAt = k > 0 is the
\* run in which it returns Err for the k-th event: unwrap() panics there, in
\* the system, which ends the process
CreateSaveScene ==
    /\ phase = "update"
    /\ "save" \notin ran
    /\ TickMayProceed
    /\ \E failAt \in 0..Len(events) :
          LET n == IF failAt = 0 THEN Len(events) ELSE failAt - 1
              r == SaveEvents(registry, tasks, SubSeq(events, 1, n))
          IN  /\ registry' = r.live
              /\ tasks' = r.tasks
              /\ IF failAt = 0
                 THEN /\ ran' = ran \cup {"save"}
                      /\ phase' = AfterSystem(ran')
                 ELSE /\ ran' = ran
                      /\ phase' = "halted"
    /\ UNCHANGED <<file, asset, rooms, lobby_yes_or_no, events, commands,
                   connects, log, sent, prevWritten, connected>>

(***************************************************************************)
(* add_replicate                                                           *)
(***************************************************************************)
\* Query<(Entity, &CarrierId), With<ComponentA>>: matched ids, in id order
RECURSIVE QueryFrom(_, _)
QueryFrom(world, i) ==
    IF i > Len(world) THEN << >>
    ELSE (IF world[i].payload # Absent /\ world[i].carrier # Absent
          THEN <<i>> ELSE << >>) \o QueryFrom(world, i + 1)

Query(world) == QueryFrom(world, 1)

Range(q) == {q[i] : i \in DOMAIN q}

EmptyRoom == [clients |-> {}, entities |-> {}]

RoomOrDefault(rm, room_id) ==
    IF room_id \in DOMAIN rm THEN rm[room_id] ELSE EmptyRoom

\* rooms.add_client(client_id, room_id)
AddClient(rm, client_id, room_id) ==
    [x \in DOMAIN rm \cup {room_id} |->
        IF x = room_id
        THEN [RoomOrDefault(rm, x) EXCEPT !.clients = @ \cup {client_id}]
        ELSE rm[x]]

\* A slip that drops the entity registration
AddEntityDropped(rm, entity, room_id) == rm

\* rooms.add_entity(entity, room_id)
AddEntity(rm, entity, room_id) ==
    [x \in DOMAIN rm \cup {room_id} |->
        IF x = room_id
        THEN [RoomOrDefault(rm, x) EXCEPT !.entities = @ \cup {entity}]
        ELSE rm[x]]

Command(op, entity, replicate, payload) ==
    [op |-> op, entity |-> entity, replicate |-> replicate, payload |-> payload]

\* A slip that keys the room by the connecting client
RoomClientOfEvent(event_client, carrier_id) == event_client

\* let client_id = carrier_id.0;
RoomClient(event_client, carrier_id) == carrier_id

\* A slip that tests the flag without setting it first
SetLobbyKept(old) == old

\* A slip that clears the flag before the test
SetLobbyCleared(old) == FALSE

\* *lobby_yes_or_no = true;
SetLobby(old) == TRUE

\* The body of the inner loop for one matched entity
ReplicateEntity(st, event_client, entity, carrier_id) ==
    LET client_id == RoomClient(event_client, carrier_id)
        flag == SetLobby(st.flag)
    IN  IF flag
        THEN LET room_id == RoomIdOf(client_id)
             IN  [rooms |-> AddEntity(AddClient(st.rooms, client_id, room_id),
                                      entity, room_id),
                  flag |-> flag,
                  cmds |-> st.cmds
                           \o <<Command("insert", entity, ReplicateLobby, Absent),
                                Command("with_child", entity, NoReplicate, 0)>>]
        ELSE [rooms |-> st.rooms,
              flag |-> flag,
              cmds |-> Append(st.cmds,
                              Command("insert", entity, ReplicateBroadcast, Absent))]

\* for (entity, carrier_id) in query.iter()
\* (s ranges over a singleton: the state after the loop body, computed once)
RECURSIVE ReplicateEntities(_, _, _, _)
ReplicateEntities(st, event_client, world, matched) ==
    IF Len(matched) = 0 THEN st
    ELSE LET e == Head(matched)
         IN  CHOOSE r \in
                 {ReplicateEntities(s, event_client, world, Tail(matched)) :
                     s \in {ReplicateEntity(st, event_client, e, world[e].carrier)}} :
                 TRUE

\* for event in event_reader.read()
RECURSIVE ReplicateEvents(_, _, _)
ReplicateEvents(st, evs, world) ==
    IF Len(evs) = 0 THEN st
    ELSE CHOOSE r \in
             {ReplicateEvents(s, Tail(evs), world) :
                 s \in {ReplicateEntities(st, Head(evs), world, Query(world))}} :
             TRUE

RECURSIVE LogEvents(_, _)
LogEvents(evs, world) ==
    IF Len(evs) = 0 THEN << >>
    ELSE <<[client |-> Head(evs), scanned |-> Range(Query(world))]>>
         \o LogEvents(Tail(evs), world)

AddReplicate ==
    /\ phase = "update"
    /\ "repl" \notin ran
    /\ TickMayProceed
    /\ \E st \in {ReplicateEvents(
                       [rooms |-> rooms, flag |-> lobby_yes_or_no, cmds |-> commands],
                       events, registry)} :
          /\ rooms' = st.rooms
          /\ lobby_yes_or_no' = st.flag
          /\ commands' = st.cmds
    /\ log' = log \o LogEvents(events, registry)
    /\ ran' = ran \cup {"repl"}
    /\ phase' = AfterSystem(ran')
    /\ UNCHANGED <<file, asset, registry, events, tasks, connects, sent,
                   prevWritten, connected>>

(***************************************************************************)
(* Command application, scene spawner, replication send.                   *)
(***************************************************************************)
\* A sync point that drops the component insertions
ApplyCommandNoInsert(world, cmd) ==
    IF cmd.op = "insert"
    THEN world
    ELSE Spawn(world,
               EntityOf(Bundle(cmd.payload, Absent, NoName), cmd.entity, "None"))

\* A sync point that drops the spawning of children
ApplyCommandNoChild(world, cmd) ==
    IF cmd.op = "insert"
    THEN [world EXCEPT ![cmd.entity].replicate = cmd.replicate]
    ELSE world

\* One deferred command applied to the world
ApplyCommand(world, cmd) ==
    IF cmd.op = "insert"
    THEN [world EXCEPT ![cmd.entity].replicate = cmd.replicate]
    ELSE Spawn(world,
               EntityOf(Bundle(cmd.payload, Absent, NoName), cmd.entity, "None"))

RECURSIVE ApplyCommands(_, _)
ApplyCommands(world, cmds) ==
    IF Len(cmds) = 0 THEN world
    ELSE ApplyCommands(ApplyCommand(world, Head(cmds)), Tail(cmds))

\* The sync point after Update: commands.entity(e).insert(..).with_child(..)
ApplyDeferred ==
    /\ phase = "apply"
    /\ TickMayProceed
    /\ registry' = ApplyCommands(registry, commands)
    /\ commands' = << >>
    /\ phase' = "scene"
    /\ UNCHANGED <<file, asset, rooms, lobby_yes_or_no, events, ran,
                   tasks, connects, log, sent, prevWritten, connected>>

\* The entities of a loaded scene, spawned as children of the scene root
RECURSIVE Instantiate(_, _, _)
Instantiate(world, scene, root) ==
    IF Len(scene) = 0 THEN world
    ELSE Instantiate(Spawn(world, EntityOf(Head(scene), root, "None")),
                     Tail(scene), root)

\* SpawnScene schedule: instantiates the DynamicSceneRoot once its asset is
\* loaded; until then, and after a failed load, it does nothing
SceneSpawner ==
    /\ phase = "scene"
    /\ TickMayProceed
    /\ IF asset.state = "loaded"
       THEN /\ registry' = Instantiate(registry, asset.scene, SceneRootId(registry))
            /\ asset' = [asset EXCEPT !.state = "spawned"]
       ELSE UNCHANGED <<registry, asset>>
    /\ phase' = "send"
    /\ UNCHANGED <<file, rooms, lobby_yes_or_no, events, ran, commands,
                   tasks, connects, log, sent, prevWritten, connected>>

\* membersVisibleTo(clientId): union of the entity sets of the client's rooms
MembersVisibleTo(rm, client_id) ==
    UNION {rm[r].entities : r \in {x \in DOMAIN rm : client_id \in rm[x].clients}}

\* Entities the send selects for a client: those with a Replicate component,
\* gated by the rooms when their relevance mode is InterestManagement
VisibleSet(world, rm, client_id) ==
    {e \in DOMAIN world :
        /\ world[e].replicate.present
        /\ \/ world[e].replicate.relevance_mode = "All"
           \/ e \in MembersVisibleTo(rm, client_id)}

\* PostUpdate: the replication send reads the Replicate components and rooms
ReplicationSend ==
    /\ phase = "send"
    /\ TickMayProceed
    /\ sent' = [c \in Clients |-> VisibleSet(registry, rooms, c)]
    /\ events' = << >>
    /\ phase' = "idle"
    /\ UNCHANGED <<file, asset, registry, rooms, lobby_yes_or_no, ran,
                   commands, tasks, connects, log, prevWritten, connected>>

(***************************************************************************)
(* The detached write task: File::create, then one file.write.             *)
(***************************************************************************)
\* A write of bytes at offset 0 of a file holding old
Overlay(old, bytes) ==
    IF Len(old) <= Len(bytes) THEN bytes
    ELSE bytes \o SubSeq(old, Len(bytes) + 1, Len(old))

\* File::create("assets/scene.ron"): creates or truncates; Err panics the
\* task through expect().  The panic unwinds the detached task only: the
\* pool thread and the main thread go on
TaskCreate(i) ==
    /\ phase \notin {"boot", "halted"}
    /\ i \in DOMAIN tasks
    /\ tasks[i].pc = "spawned"
    /\ \/ /\ file' = FileOf(<< >>)
          /\ tasks' = [tasks EXCEPT ![i].pc = "created"]
       \/ /\ file' = file
          /\ tasks' = [tasks EXCEPT ![i].pc = "panicked"]
    /\ UNCHANGED <<phase, asset, registry, rooms, lobby_yes_or_no, events,
                   ran, commands, connects, log, sent, prevWritten, connected>>

\* file.write(serialized_scene.as_bytes()) on the task's own descriptor
TaskWrite(i) ==
    /\ phase \notin {"boot", "halted"}
    /\ i \in DOMAIN tasks
    /\ tasks[i].pc = "created"
    /\ \/ /\ file' = FileOf(Overlay(file.bytes, tasks[i].bytes))
          /\ tasks' = [tasks EXCEPT ![i].pc = "done"]
       \/ /\ file' = file
          /\ tasks' = [tasks EXCEPT ![i].pc = "panicked"]
    /\ UNCHANGED <<phase, asset, registry, rooms, lobby_yes_or_no, events,
                   ran, commands, connects, log, sent, prevWritten, connected>>

(***************************************************************************)
(* The process ends (between ticks, or by the panic) and is started again  *)
(* over the same assets directory.                                         *)
(***************************************************************************)
Restart ==
    /\ phase \in {"idle", "halted"}
    /\ phase' = "boot"
    /\ prevWritten' = {tasks[i].scene : i \in {j \in DOMAIN tasks : tasks[j].pc = "done"}}
    /\ asset' = NoAsset
    /\ registry' = EmptyWorld
    /\ rooms' = << >>
    /\ lobby_yes_or_no' = FALSE
    /\ events' = << >>
    /\ ran' = {}
    /\ commands' = << >>
    /\ tasks' = << >>
    /\ log' = << >>
    /\ sent' = [c \in Clients |-> {}]
    /\ connected' = {}
    /\ UNCHANGED <<file, connects>>

(***************************************************************************)
(* A client disconnects.  The transport emits the disconnect event; build  *)
(* registers no system that reads it.                                      *)
(***************************************************************************)
\* A handler that removes the disconnected client from every room
DisconnectRoomsCleanup(rm, client_id) ==
    [r \in DOMAIN rm |-> [rm[r] EXCEPT !.clients = @ \ {client_id}]]

\* The Room Table after the systems of the app have seen the disconnect of
\* client_id: none of them reads the event
DisconnectRooms(rm, client_id) == rm

ClientDisconnect ==
    /\ phase = "idle"
    /\ connects < MaxConnects
    /\ \E c \in connected :
          /\ connected' = connected \ {c}
          /\ rooms' = DisconnectRooms(rooms, c)
    /\ connects' = connects + 1
    /\ UNCHANGED <<phase, file, asset, registry, lobby_yes_or_no, events, ran,
                   commands, tasks, log, sent, prevWritten>>

TickLoop ==
    \/ BeginTick
    \/ CreateSaveScene
    \/ AddReplicate
    \/ ApplyDeferred
    \/ SceneSpawner
    \/ ReplicationSend

Next ==
    \/ Startup
    \/ LoadScene
    \/ BeginTick
    \/ CreateSaveScene
    \/ AddReplicate
    \/ ApplyDeferred
    \/ SceneSpawner
    \/ ReplicationSend
    \/ \E i \in 1..MaxConnects : TaskCreate(i)
    \/ \E i \in 1..MaxConnects : TaskWrite(i)
    \/ ClientDisconnect
    \/ Restart

Spec == Init /\ [][Next]_vars

(***************************************************************************)
(* Properties.                                                             *)
(***************************************************************************)
\* A step in which add_replicate runs
AddReplicateStep == phase = "update" /\ "repl" \notin ran /\ "repl" \in ran'

\* A step in which create_save_scene runs (to its end, or to its panic)
CreateSaveSceneStep ==
    /\ phase = "update"
    /\ "save" \notin ran
    /\ "save" \in ran' \/ phase' = "halted"

Scanned(world) == Range(Query(world))

\* C1, as stated (for an event that matched at least one entity): when
\* add_replicate processes a connect event of client c, the room
\* RoomId(c.to_bits()) contains c as a client and contains every entity the
\* query matched for that event.
C1_RoomOfConnectingClient ==
    [][AddReplicateStep /\ Scanned(registry) # {} =>
         \A k \in DOMAIN events :
            LET r == RoomIdOf(events[k])
            IN  /\ r \in DOMAIN rooms'
                /\ events[k] \in rooms'[r].clients
                /\ Scanned(registry) \subseteq rooms'[r].entities]_vars

\* C1, amended: when add_replicate processes a connect event, every matched
\* entity E is put, with its carrier d, into the room derived from d (the
\* CarrierId of E, not the connecting client); the room derived from the
\* connecting client c is touched only if c is the carrier of a matched entity.
C1_RoomOfCarrier ==
    [][AddReplicateStep /\ events # << >> =>
         /\ \A e \in Scanned(registry) :
               LET d == registry[e].carrier
                   r == RoomIdOf(d)
               IN  /\ r \in DOMAIN rooms'
                   /\ d \in rooms'[r].clients
                   /\ e \in rooms'[r].entities
         /\ \A k \in DOMAIN events :
               LET r == RoomIdOf(events[k])
               IN  (\A e \in Scanned(registry) : registry[e].carrier # events[k])
                   => /\ (r \in DOMAIN rooms') = (r \in DOMAIN rooms)
                      /\ r \in DOMAIN rooms => rooms'[r] = rooms[r]]_vars

\* C1 witness: a connect event of client c was processed while a matched
\* entity carried another client d, and that entity sits in d's room.
C1_Witness ==
    \E k \in DOMAIN log :
        \E e \in log[k].scanned :
            /\ registry[e].carrier # log[k].client
            /\ RoomIdOf(registry[e].carrier) \in DOMAIN rooms
            /\ e \in rooms[RoomIdOf(registry[e].carrier)].entities
            /\ RoomIdOf(log[k].client) \notin DOMAIN rooms

\* The scenario of C2: connect events of two different clients A then B were
\* processed, each with E as the only matched entity
C2_Scenario(i, j) ==
    /\ i < j
    /\ log[i].client # log[j].client
    /\ Cardinality(log[i].scanned) = 1
    /\ log[j].scanned = log[i].scanned

\* C2, as stated: after A then B connected with E the only payload-bearing
\* entity, the Room Table holds two rooms, keyed to A and to B, both contain
\* E, and E is in the visible set of both A and B.
C2_TwoRooms ==
    \A i, j \in DOMAIN log :
        C2_Scenario(i, j) =>
            LET A == log[i].client
                B == log[j].client
                E == CHOOSE e \in log[i].scanned : TRUE
            IN  /\ DOMAIN rooms = {RoomIdOf(A), RoomIdOf(B)}
                /\ E \in rooms[RoomIdOf(A)].entities
                /\ E \in rooms[RoomIdOf(B)].entities
                /\ E \in MembersVisibleTo(rooms, A)
                /\ E \in MembersVisibleTo(rooms, B)

\* C2, amended: after A then B connected with E the only matched entity, the
\* Room Table holds exactly one room, keyed to E's carrier d and holding
\* {d} and {E}; E is in the visible set of a client exactly if it is d.
C2_OneCarrierRoom ==
    \A i, j \in DOMAIN log :
        C2_Scenario(i, j) =>
            LET E == CHOOSE e \in log[i].scanned : TRUE
                d == registry[E].carrier
            IN  /\ DOMAIN rooms = {RoomIdOf(d)}
                /\ rooms[RoomIdOf(d)] = [clients |-> {d}, entities |-> {E}]
                /\ \A c \in Clients :
                      (E \in MembersVisibleTo(rooms, c)) = (c = d)

\* C2 witness: the scenario happened and the single room is the carrier's.
C2_Witness ==
    \E i, j \in DOMAIN log :
        /\ C2_Scenario(i, j)
        /\ Cardinality(DOMAIN rooms) = 1
        /\ \E e \in log[i].scanned : DOMAIN rooms = {RoomIdOf(registry[e].carrier)}

\* C3, as stated: once a connect event has been processed, every entity that
\* carries ComponentA and a CarrierId c is a member of the room derived from
\* c, and c is a client of that room.
C3_CarrierRoomInvariant ==
    log # << >> =>
        \A e \in Scanned(registry) :
            LET d == registry[e].carrier
                r == RoomIdOf(d)
            IN  /\ r \in DOMAIN rooms
                /\ d \in rooms[r].clients
                /\ e \in rooms[r].entities

\* Entities that carry ComponentA
PayloadBearing(world) == {i \in DOMAIN world : world[i].payload # Absent}

\* Entities instantiated from the scene: the children of the scene root
SceneEntities(world) ==
    {i \in DOMAIN world :
        \E r \in DOMAIN world :
            world[r].marker = "DynamicSceneRoot" /\ world[i].parent = r}

RECURSIVE SceneBundlesFrom(_, _)
SceneBundlesFrom(world, i) ==
    IF i > Len(world) THEN << >>
    ELSE (IF i \in SceneEntities(world) THEN <<BundleOf(world[i])>> ELSE << >>)
         \o SceneBundlesFrom(world, i + 1)

\* The component bundles of the instantiated scene entities, in id order
SceneBundles(world) == SceneBundlesFrom(world, 1)

\* A step in which the commands of the tick's Update systems are applied
ApplyStep == phase = "apply" /\ phase' = "scene"

\* C4, as stated: for each connect event processed in a tick the live registry
\* holds one more payload-bearing entity once the tick's commands are applied.
C4_SpawnsPlayerPerConnect ==
    [][ApplyStep =>
         Cardinality(PayloadBearing(registry'))
             = Cardinality(PayloadBearing(registry)) + Len(events)]_vars

\* C5: create_save_scene leaves the live registry, the Room Table and the
\* sticky flag exactly as they were, for every batch of connect events.
C5_SaveSceneFrame ==
    [][CreateSaveSceneStep =>
         /\ registry' = registry
         /\ rooms' = rooms
         /\ lobby_yes_or_no' = lobby_yes_or_no]_vars

\* C5 witness: create_save_scene has handled a connect event in a tick whose
\* live registry holds scene entities, and has spawned the write task.
C5_Witness ==
    /\ "save" \in ran
    /\ events # << >>
    /\ SceneEntities(registry) # {}
    /\ \E i \in DOMAIN tasks : tasks[i].client = events[Len(events)]

\* C6, as stated: a failure of File::create or file.write never becomes a
\* panic of any task.
C6_WriteFailureOnlyLogged ==
    \A i \in DOMAIN tasks : tasks[i].pc # "panicked"

\* C7, as stated: a serialization failure does not halt the server; the tick
\* loop goes on.
C7_SerializationFailureContained ==
    [][CreateSaveSceneStep => phase' # "halted"]_vars

\* C8: when the load found no scene.ron, the load has failed without a panic,
\* no entity is instantiated from a scene, the live registry holds no
\* payload-bearing entity, and the tick loop can take its next step.
C8_MissingSnapshotStartsEmpty ==
    (asset.state \notin {"unloaded", "loading"} /\ ~asset.seen.exists) =>
        /\ asset.state = "failed"
        /\ SceneEntities(registry) = {}
        /\ PayloadBearing(registry) = {}
        /\ phase # "halted" => ENABLED TickLoop

\* C8 witness: the load found no file, and the server has since completed a
\* tick that processed a connect event.
C8_Witness ==
    /\ asset.state = "failed"
    /\ ~asset.seen.exists
    /\ phase = "idle"
    /\ log # << >>

\* C9, as stated: once the write of the snapshot S of a connect event has
\* run, the scene instantiated at the next startup (here: before that run
\* has spawned any write task of its own) equals S.
C9_RoundTripAfterWrite ==
    (asset.state = "spawned" /\ tasks = << >>) =>
        \A S \in prevWritten : SceneBundles(registry) = S

\* C9, amended: the scene instantiated at the next startup equals S whenever
\* the file that startup loads holds exactly the serialization of S (a later
\* write of another event's snapshot replaces S in the file).
C9_RoundTripOfLoadedFile ==
    asset.state = "spawned" =>
        \A S \in prevWritten :
            asset.seen.bytes = Serialize(S) => SceneBundles(registry) = S

\* C9 witness: a snapshot written by the previous run was loaded and
\* instantiated with equal component values.
C9_Witness ==
    /\ asset.state = "spawned"
    /\ \E S \in prevWritten :
          /\ Len(S) = 1
          /\ asset.seen.bytes = Serialize(S)
          /\ SceneBundles(registry) = S

\* C10: whatever the state of the write tasks, the tick loop can take its
\* next step: no tick step waits for a task to start, progress or finish.
C10_FireAndForget ==
    phase \notin {"boot", "halted"} => ENABLED TickLoop

\* C10 witness: a tick that begins while the write task of an earlier tick
\* has not even started.
C10_Witness ==
    /\ phase = "update"
    /\ ran = {}
    /\ \E i \in DOMAIN tasks : tasks[i].pc = "spawned"

\* A step that starts a new process (from the first run or a later one)
RestartStep == phase' = "boot"

\* C11, as stated: the flag of add_replicate is FALSE before any connect
\* event is processed and TRUE as soon as the first connect event has been
\* processed, whatever the registry contains.
C11_SetByFirstEvent == lobby_yes_or_no = (log # << >>)

\* C11, amended: the flag is FALSE until add_replicate processes a connect
\* event while its query matches at least one entity, TRUE from that event
\* on, and stays TRUE for the rest of the process; a connect event processed
\* while the query matches nothing leaves it FALSE.
C11_SetByFirstMatch ==
    lobby_yes_or_no = (\E k \in DOMAIN log : log[k].scanned # {})

\* C11 witness: the first connect event matched nothing and left the flag
\* FALSE (no entity is in a room), a later one matched an entity and set it.
C11_Witness ==
    /\ lobby_yes_or_no
    /\ \E k \in DOMAIN log :
          /\ k > 1
          /\ log[1].scanned = {}
          /\ log[k].scanned # {}

\* The entities some processed connect event of this run has scanned
EverScanned == UNION {log[k].scanned : k \in DOMAIN log}

\* C12, as stated: once the commands of a tick that processed a connect event
\* are applied, every entity that carried the payload when the event was
\* handled (children created by earlier events included) has the replication
\* target All with interest management.
C12_AllPayloadBearingReplicated ==
    [][ApplyStep /\ events # << >> =>
         \A e \in PayloadBearing(registry) :
             registry'[e].replicate = ReplicateLobby]_vars

\* C12, amended: whenever no command is pending, the entities that have the
\* replication target All with interest management are exactly those a
\* processed connect event has scanned (they carry payload and carrier id);
\* every other entity, the payload-bearing children included, has no
\* Replicate component.
C12_ScannedReplicated ==
    commands = << >> =>
        \A e \in DOMAIN registry :
            registry[e].replicate =
                IF e \in EverScanned THEN ReplicateLobby ELSE NoReplicate

\* C12 witness: two connect events were processed; the scanned entity has its
\* Replicate component, and a child created for it carries the payload 0 and
\* no Replicate component.
C12_Witness ==
    /\ commands = << >>
    /\ Len(log) >= 2
    /\ \E e \in EverScanned :
          /\ registry[e].replicate = ReplicateLobby
          /\ \E ch \in PayloadBearing(registry) :
                /\ registry[ch].parent = e
                /\ registry[ch].payload = 0
                /\ registry[ch].replicate = NoReplicate

\* A step in which a client disconnects while the process keeps running
DisconnectStep == phase = "idle" /\ phase' = "idle" /\ connected' # connected

ScannedThisTick ==
    UNION {log[k].scanned : k \in (Len(log) - Len(events) + 1)..Len(log)}

\* C14: when the replication send of a tick that handled a connect event
\* reads the replication state, no command of the tick is pending, and every
\* entity scanned for the event has its Replicate component and is, with its
\* carrier, in the carrier's room.
C14_ProcessedBeforeSend ==
    phase = "send" /\ events # << >> =>
        /\ commands = << >>
        /\ Len(log) >= Len(events)
        /\ \A e \in ScannedThisTick :
              LET r == RoomIdOf(registry[e].carrier)
              IN  /\ registry[e].replicate = ReplicateLobby
                  /\ r \in DOMAIN rooms
                  /\ registry[e].carrier \in rooms[r].clients
                  /\ e \in rooms[r].entities

\* C14 witness: the send is about to read the state in the tick in which the
\* first connect event of the run was handled, and the scanned entity, which
\* had no Replicate component and no room before, has both.
C14_Witness ==
    /\ phase = "send"
    /\ Len(events) = 1
    /\ Len(log) = 1
    /\ log[1].scanned # {}
    /\ \A e \in log[1].scanned :
          /\ registry[e].replicate = ReplicateLobby
          /\ e \in VisibleSet(registry, rooms, registry[e].carrier)

\* The children of entity e
ChildrenOf(world, e) == {ch \in DOMAIN world : world[ch].parent = e}

\* The processed connect events of this run that scanned entity e
EventsScanning(e) == {k \in DOMAIN log : e \in log[k].scanned}

\* C15: every connect event add_replicate processes gives each scanned entity
\* E exactly one new child, which carries the payload 0 and nothing else,
\* and leaves E's payload and carrier as instantiated; so, once the commands
\* are applied, E has as many children as connect events have scanned it.
C15_OneChildPerEvent ==
    /\ asset.state = "spawned" => SceneBundles(registry) = asset.scene
    /\ commands = << >> =>
          \A e \in Scanned(registry) :
              /\ Cardinality(ChildrenOf(registry, e))
                    = Cardinality(EventsScanning(e))
              /\ \A ch \in ChildrenOf(registry, e) :
                    BundleOf(registry[ch]) = Bundle(0, Absent, NoName)

\* C15 witness: two connect events have scanned an entity with payload 2,
\* which has two children with payload 0 and still its payload and carrier.
C15_Witness ==
    /\ commands = << >>
    /\ \E e \in Scanned(registry) :
          /\ Cardinality(EventsScanning(e)) = 2
          /\ Cardinality(ChildrenOf(registry, e)) = 2
          /\ registry[e].payload = 2
          /\ registry[e].carrier \in Clients

\* The component bundles of the live entities
LiveBundles(world) == {BundleOf(world[e]) : e \in DOMAIN world}

\* C16, as stated: every bundle of a snapshot built on a connect event is a
\* copy of an entity that is in the live registry when the event is handled.
C16_SnapshotIsRegistrySubset ==
    [][CreateSaveSceneStep =>
         \A i \in DOMAIN tasks' \ DOMAIN tasks :
             \A j \in DOMAIN tasks'[i].scene :
                 tasks'[i].scene[j] \in LiveBundles(registry)]_vars

\* C16, amended: the snapshot built on the connect event of client c holds
\* exactly one bundle, made for the event in a world of its own: payload 2,
\* carrier c and the name "Replicated entity"; it is not taken from the live
\* registry.
C16_SnapshotIsFreshEntity ==
    \A i \in DOMAIN tasks :
        /\ tasks[i].client \in Clients
        /\ tasks[i].scene = <<Bundle(2, tasks[i].client, SceneEntityName)>>

\* C16 witness: create_save_scene has just built the snapshot of a connect
\* event while no live entity has the component values of its bundle.
C16_Witness ==
    /\ phase = "update"
    /\ "save" \in ran
    /\ events # << >>
    /\ \E i \in DOMAIN tasks :
          /\ tasks[i].pc = "spawned"
          /\ tasks[i].scene = <<Bundle(2, tasks[i].client, SceneEntityName)>>
          /\ tasks[i].scene[1] \notin LiveBundles(registry)

\* The Replicate components add_replicate has asked to insert and those
\* that have been inserted
InsertedReplicates ==
    {commands[k].replicate : k \in {x \in DOMAIN commands : commands[x].op = "insert"}}
    \cup {registry[e].replicate : e \in {x \in DOMAIN registry : registry[x].replicate.present}}

\* C17: the full-broadcast branch of add_replicate never runs: every
\* Replicate component it inserts, for the first connect event as for the
\* later ones, has the target All with relevance mode InterestManagement.
C17_LobbyBranchOnly ==
    /\ InsertedReplicates \subseteq {ReplicateLobby}
    /\ ReplicateBroadcast \notin InsertedReplicates

\* C17 witness: the first connect event of the run that matched an entity has
\* queued the insertion of a Replicate with InterestManagement while the
\* flag was still FALSE when the event arrived (no entity has a Replicate).
C17_Witness ==
    /\ commands # << >>
    /\ Cardinality(EverScanned) >= 1
    /\ \A k \in DOMAIN log : log[k].scanned # {} => k = Len(log)
    /\ \A e \in DOMAIN registry : ~registry[e].replicate.present
    /\ \E k \in DOMAIN commands :
          /\ commands[k].op = "insert"
          /\ commands[k].replicate.relevance_mode = "InterestManagement"
          /\ commands[k].replicate.target = "All"

\* The Room Table that putting each entity of scanned, with its carrier, into
\* its carrier's room yields
RoomsFromCarriers(world, scanned) ==
    [r \in {RoomIdOf(world[e].carrier) : e \in scanned} |->
        [clients  |-> {world[e].carrier :
                          e \in {x \in scanned : RoomIdOf(world[x].carrier) = r}},
         entities |-> {x \in scanned : RoomIdOf(world[x].carrier) = r}]]

\* C18: the Room Table is determined by the entities the processed connect
\* events have scanned and by their carriers alone; neither the identities
\* nor the number of the clients that connected enter it, so two runs that
\* process connect events over the same registry have the same Room Table.
C18_RoomsIndependentOfClients ==
    /\ DOMAIN rooms = DOMAIN RoomsFromCarriers(registry, EverScanned)
    /\ \A r \in DOMAIN rooms :
          rooms[r] = RoomsFromCarriers(registry, EverScanned)[r]

\* C18 witness: two connect events of different clients were processed over
\* the same scanned entities, and the Room Table has the room of the
\* entities' carrier only, none for the other client.
C18_Witness ==
    /\ Len(log) = 2
    /\ log[1].client # log[2].client
    /\ log[1].scanned = log[2].scanned
    /\ log[1].scanned # {}
    /\ \E d \in Clients :
          /\ DOMAIN rooms = {RoomIdOf(d)}
          /\ rooms[RoomIdOf(d)].clients = {d}

\* C19, as stated: once every write task of the run has finished its write,
\* assets/scene.ron holds exactly the complete serialized snapshot of one of
\* the connect events, under every interleaving of the tasks.
C19_FileIsOneSnapshot ==
    (tasks # << >> /\ \A i \in DOMAIN tasks : tasks[i].pc = "done") =>
        /\ file.exists
        /\ \E i \in DOMAIN tasks : file.bytes = tasks[i].bytes

====
